---- MODULE Spec2Model ----
(***************************************************************************)
(* BeerBot: the weekly order decision of the four supply-chain roles.      *)
(*                                                                         *)
(* Three deployable variants of the same Flask handler live in the         *)
(* repository: src/app.py (order-up-to policy with pipeline and ramp),     *)
(* src/BeerGame.py and src/beerbot.py (the earlier "APIO-lite" policy).    *)
(*                                                                         *)
(* Numbers.  Python floats are modelled in fixed point: a real x is the    *)
(* integer x * SCALE, and decimal parameters (ALPHA, BETA, K_SAFETY,       *)
(* MAX_ORDER_CHANGE) are held in hundredths.  With ALPHA = 0.10 (0.3 in    *)
(* the earlier variants) the smoothed values of a history of n weeks are   *)
(* multiples of 10^-(n-1), so smoothing is exact for histories of up to    *)
(* five weeks; beyond that, and in the safety stock (a product with        *)
(* sqrt(H)), values are truncated at 10^-4.  Arithmetic is that of the     *)
(* reals: where IEEE doubles land just below a rounding tie that the exact *)
(* value hits (3.4999999999999982 for 3.5), the model rounds the exact one.*)
(*                                                                         *)
(* JSON values.  A field value is [t, v]: t = "int" (v is the integer),    *)
(* t = "str" (a non-numeric string, int() raises ValueError) or            *)
(* t = "absent" (the key is missing, dict.get returns its default).        *)
(* A container carries t = "map" / "list", or t = "scalar" when the JSON   *)
(* value found there is not a container (subscripting or .get raises), or  *)
(* t = "absent".                                                           *)
(***************************************************************************)
EXTENDS Integers, Sequences, FiniteSets, TLC

VARIABLES
    deployed,       \* which variant serves /api/decision: "app", "BeerGame" or "beerbot"
    BETA_BY_ROLE,   \* src/app.py: the module-level dict, alive across requests
    history,        \* the game's history store: the week records accumulated so far
    body,           \* the JSON body of the last request of the current week
    resp,           \* the response to that request
    ret,            \* the return statement of decision() that produced resp
    ran,            \* the roles for which decide_for_role was called by the last request
    answers,        \* replay log: the response first given to each body
    probe,          \* the last direct call of calculate_pipeline: its arguments and result
    pc,             \* one worker per role: where the worker stands in decide_for_role
    loc             \* one worker per role: the locals of its decide_for_role call

vars == <<deployed, BETA_BY_ROLE, history, body, resp, ret, ran, answers, probe, pc, loc>>

\* ------------------------------------------------------------------------
\* Bounds of the model
\* ------------------------------------------------------------------------
MaxWeeks == 3
MaxSteadyWeeks == 21

\* ------------------------------------------------------------------------
\* Fixed-point arithmetic
\* ------------------------------------------------------------------------
SCALE == 10 * 10 * 10 * 10
HUNDRED == 10 * 10

Max(a, b) == IF a >= b THEN a ELSE b
Min(a, b) == IF a <= b THEN a ELSE b
Abs(a) == IF a >= 0 THEN a ELSE -a

\* a * b / SCALE for fixed-point a, b, split so that no product leaves 32 bits
MulFx(a, b) == (a * (b \div 1000)) \div 10 + (a * (b % 1000)) \div SCALE

\* the largest r in lo..hi with r * r <= x, by bisection
RECURSIVE isqrt(_, _, _)
isqrt(x, lo, hi) ==
    IF lo >= hi THEN lo
    ELSE LET mid == (lo + hi + 1) \div 2
         IN  IF mid * mid <= x THEN isqrt(x, mid, hi) ELSE isqrt(x, lo, mid - 1)

\* math.sqrt(n) for a small natural n, in fixed point (floor at 10^-4)
sqrt(n) == isqrt(n * SCALE * SCALE, 0, 4 * SCALE)

\* ------------------------------------------------------------------------
\* JSON values
\* ------------------------------------------------------------------------
Num(n) == [t |-> "int", v |-> n]
Str == [t |-> "str", v |-> 0]
Absent == [t |-> "absent", v |-> 0]
\* the JSON literal true
JTrue == [t |-> "true", v |-> 0]

\* dict.get(key, default) on a present mapping
Get(x, default) == IF x.t = "absent" THEN default ELSE x

\* ------------------------------------------------------------------------
\* src/app.py : module level
\* ------------------------------------------------------------------------
ALPHA == 10
K_SAFETY == 250
REVIEW_TIME == 1
LEAD_TIME == 2
\* the horizon with the review period left out
H_TARGET_lead_only == LEAD_TIME

H_TARGET == REVIEW_TIME + LEAD_TIME
BETA_BY_ROLE_0 == [retailer |-> 8, wholesaler |-> 5, distributor |-> 3, factory |-> 1]
MAX_ORDER_CHANGE == 10
ROLES == <<"retailer", "wholesaler", "distributor", "factory">>
INITIAL_DEMAND_ESTIMATE == 10

RoleSet == {ROLES[i] : i \in 1..Len(ROLES)}
SQRT_H == sqrt(H_TARGET)

\* w["roles"][role] raises (TypeError on a non-mapping, KeyError on a missing key)
RoleLookupRaises(w, role) ==
    \/ w.t # "map"
    \/ w.roles.t # "map"
    \/ role \notin DOMAIN w.roles.m

\* w.get("orders", {}).get(role, 0) raises AttributeError
OrdersLookupRaises(w) == w.t # "map" \/ w.orders.t = "scalar"

\* w.get("orders", {}).get(role, 0), given that it does not raise
OrdersEntry(w, role) ==
    IF w.orders.t = "absent" THEN Num(0) ELSE Get(w.orders.m[role], Num(0))

\* rounding by truncation, int(x), in place of floor(x + 0.5)
round_half_up_truncating(num, den) == Max(0, num \div den)

\* def round_half_up(x): max(0, int(math.floor(x + 0.5))), x = num / den
round_half_up(num, den) == Max(0, (2 * num + den) \div (2 * den))

\* the loop body of smooth_forecast_and_mad for week i; st = [exc, none, fc, mad]
smooth_step(st, weeks, i, role, alpha) ==
    LET w == weeks[i]
        demand_key == IF role = "retailer" THEN "customer_orders" ELSE "incoming_orders"
    IN  IF st.exc THEN st
        ELSE IF RoleLookupRaises(w, role) \/ w.roles.m[role].t # "map"
             THEN [st EXCEPT !.exc = TRUE]
        ELSE LET raw == Get(w.roles.m[role][demand_key], Num(0))
             IN  IF raw.t # "int" THEN [st EXCEPT !.exc = TRUE]
                 ELSE LET d == Max(0, raw.v)
                      IN  IF st.none
                          THEN [exc |-> FALSE, none |-> FALSE,
                                fc |-> IF d > 0 THEN d * SCALE ELSE INITIAL_DEMAND_ESTIMATE * SCALE,
                                mad |-> 0]
                          ELSE LET prev_d == IF i > 1
                                             THEN Get(weeks[i - 1].roles.m[role][demand_key],
                                                      Num(INITIAL_DEMAND_ESTIMATE)).v
                                             ELSE INITIAL_DEMAND_ESTIMATE
                               IN  [exc |-> FALSE, none |-> FALSE,
                                    fc |-> (alpha * d * SCALE + (HUNDRED - alpha) * st.fc) \div HUNDRED,
                                    mad |-> (alpha * Abs(d - prev_d) * SCALE + (HUNDRED - alpha) * st.mad) \div HUNDRED]

RECURSIVE smooth_loop(_, _, _, _)
smooth_loop(weeks, i, role, alpha) ==
    IF i = 0 THEN [exc |-> FALSE, none |-> TRUE, fc |-> 0, mad |-> 0]
    ELSE smooth_step(smooth_loop(weeks, i - 1, role, alpha), weeks, i, role, alpha)

\* def smooth_forecast_and_mad(weeks, role, alpha): returns [exc, fc, mad]
smooth_forecast_and_mad(weeks, role, alpha) ==
    LET st == smooth_loop(weeks, Len(weeks), role, alpha)
    IN  IF st.exc \/ st.none THEN [exc |-> TRUE, fc |-> 0, mad |-> 0]
        ELSE LET fc == IF st.fc # 0 THEN st.fc ELSE INITIAL_DEMAND_ESTIMATE * SCALE
                 alt == IF st.mad # 0 THEN st.mad
                        ELSE IF st.fc \div 5 # 0 THEN st.fc \div 5 ELSE SCALE
             IN  [exc |-> FALSE, fc |-> fc, mad |-> Max(SCALE, alt)]

\* calculate_pipeline without its test for a lead time of one week or less
pipeline_with_short_lead_unguarded(weeks, role, lead_time) ==
    IF Len(weeks) < lead_time THEN [exc |-> FALSE, v |-> 0]
    ELSE IF \E i \in 1..Len(weeks) :
                OrdersLookupRaises(weeks[i]) \/ OrdersEntry(weeks[i], role).t # "int"
         THEN [exc |-> TRUE, v |-> 0]
    ELSE LET orders == [i \in 1..Len(weeks) |-> OrdersEntry(weeks[i], role).v]
             take == lead_time - 1
             RECURSIVE tail_sum(_)
             tail_sum(k) == IF k = 0 THEN 0 ELSE orders[Len(orders) - (k - 1)] + tail_sum(k - 1)
         IN  IF Len(orders) < take THEN [exc |-> FALSE, v |-> 0]
             ELSE [exc |-> FALSE, v |-> tail_sum(take)]

\* the body of calculate_pipeline; lead_time stands for the module-level
\* LEAD_TIME it reads, so that other settings of it can be examined
pipeline_with(weeks, role, lead_time) ==
    IF lead_time <= 1 \/ Len(weeks) < lead_time THEN [exc |-> FALSE, v |-> 0]
    ELSE IF \E i \in 1..Len(weeks) :
                OrdersLookupRaises(weeks[i]) \/ OrdersEntry(weeks[i], role).t # "int"
         THEN [exc |-> TRUE, v |-> 0]
    ELSE LET orders == [i \in 1..Len(weeks) |-> OrdersEntry(weeks[i], role).v]
             take == lead_time - 1
             RECURSIVE tail_sum(_)
             tail_sum(k) == IF k = 0 THEN 0 ELSE orders[Len(orders) - (k - 1)] + tail_sum(k - 1)
         IN  IF Len(orders) < take THEN [exc |-> FALSE, v |-> 0]
             ELSE [exc |-> FALSE, v |-> tail_sum(take)]

\* def calculate_pipeline(weeks, role): returns [exc, v]
calculate_pipeline(weeks, role) == pipeline_with(weeks, role, LEAD_TIME)

\* the inventory position with the sign of the backlog slipped
inventory_position_adds_backlog(inventory, backlog, pipeline) == inventory + backlog + pipeline

\* decide_for_role: IP = inventory - backlog + pipeline
inventory_position(inventory, backlog, pipeline) == inventory - backlog + pipeline

\* decide_for_role: q_base = beta * gap + (1 - beta) * q_last, in units of 1 / (HUNDRED * SCALE)
partial_adjustment(gap, q_last, beta) == beta * gap + (HUNDRED - beta) * q_last * SCALE

\* the ramp constraint with its lower bound lost: only the rise is limited
ramp_clamp_upper_only(q_last, ramp, q) == Min(q_last + ramp, Max(0, q))

\* decide_for_role, the ramp constraint: q held within ramp of the previous order
ramp_clamp(q_last, ramp, q) ==
    LET q_min_ramp == Max(0, q_last - ramp)
        q_max_ramp == q_last + ramp
    IN  Min(q_max_ramp, Max(q_min_ramp, q))

\* the result of decide_for_role when an exception leaves it
Raised == [exc |-> TRUE, q |-> 0, first |-> FALSE, fc |-> 0, mad |-> 0, target_S |-> 0,
           IP |-> 0, pipeline |-> 0, q_last |-> 0, ramp |-> 0, q_base |-> 0]

\* def decide_for_role(weeks, role): returns the order q and the locals it was made from
decide_for_role(weeks, role) ==
    IF Len(weeks) = 0 THEN Raised
    ELSE IF Len(weeks) = 1 /\ weeks[1].t # "map" THEN Raised
    ELSE IF Len(weeks) = 1 /\ weeks[1].week = Num(1)
    THEN [Raised EXCEPT !.exc = FALSE, !.first = TRUE, !.q = INITIAL_DEMAND_ESTIMATE]
    ELSE IF RoleLookupRaises(weeks[Len(weeks)], role) THEN Raised
    ELSE
    LET last == weeks[Len(weeks)]
        current_state == last.roles.m[role]
        H == H_TARGET
        f == smooth_forecast_and_mad(weeks, role, ALPHA)
    IN  IF f.exc THEN Raised
        ELSE
        LET fc == f.fc
            mad == f.mad
            safety_stock == MulFx((K_SAFETY * mad) \div HUNDRED, SQRT_H)
            inventory == Get(current_state.inventory, Num(0))
            backlog == Get(current_state.backlog, Num(0))
        IN  IF inventory.t # "int" \/ backlog.t # "int" THEN Raised
            ELSE
            LET pipeline == calculate_pipeline(weeks, role)
            IN  IF pipeline.exc THEN Raised
                ELSE IF OrdersLookupRaises(last) \/ OrdersEntry(last, role).t # "int" THEN Raised
                ELSE
                LET IP == inventory_position(inventory.v, backlog.v, pipeline.v)
                    target_S == fc * H + safety_stock
                    gap == target_S - IP * SCALE
                    beta == BETA_BY_ROLE[role]
                    q_last == Max(0, OrdersEntry(last, role).v)
                    q_base == partial_adjustment(gap, q_last, beta)
                    ramp == Max(1, round_half_up(MAX_ORDER_CHANGE * Max(fc, SCALE), HUNDRED * SCALE))
                    q_final == ramp_clamp(q_last, ramp, round_half_up(q_base, HUNDRED * SCALE))
                IN  [exc |-> FALSE, q |-> Max(0, q_final), first |-> FALSE, fc |-> fc, mad |-> mad,
                     target_S |-> target_S, IP |-> IP, pipeline |-> pipeline.v, q_last |-> q_last,
                     ramp |-> ramp, q_base |-> q_base]

\* ------------------------------------------------------------------------
\* Responses
\* ------------------------------------------------------------------------
NoOrders == [r \in RoleSet |-> -1]
NoDesc == [ok |-> FALSE, student_email |-> "", algorithm_name |-> "", version |-> "",
           supports |-> [blackbox |-> FALSE, glassbox |-> FALSE], message |-> ""]

\* jsonify({"orders": o}), 200
OrdersResponse(o) == [kind |-> "orders", orders |-> o, desc |-> NoDesc]
\* jsonify({... handshake descriptor ...}), 200
HandshakeResponse(d) == [kind |-> "handshake", orders |-> NoOrders, desc |-> d]
\* an exception leaves decision(): Flask answers 500, no orders mapping
ExceptionResponse == [kind |-> "exception", orders |-> NoOrders, desc |-> NoDesc]
NoResponse == [kind |-> "none", orders |-> NoOrders, desc |-> NoDesc]

\* the roles a loop over ROLES reaches when it stops at the first role i with raises[i]
RolesReached(raises) ==
    {ROLES[i] : i \in {j \in 1..Len(ROLES) : \A k \in 1..(j - 1) : ~raises[ROLES[k]]}}

\* body.get("weeks", []) where body = request.get_json(...) or {}
WeeksOf(b) == IF b.t = "map" THEN b.weeks ELSE [t |-> "absent", l |-> << >>]

\* the guard of decision() without its test for an empty list
no_weeks_type_only(wk) == wk.t # "list"

\* decision(): not isinstance(weeks, list) or not weeks
no_weeks(wk) == wk.t # "list" \/ Len(wk.l) = 0

\* a truthiness test, if body.get("handshake"):, in place of the identity test
is_True_truthy(x) == x.t = "true" \/ (x.t = "int" /\ x.v # 0) \/ x.t = "str"

\* body.get("handshake") is True: only the JSON literal true, not 1 or a string
is_True(x) == x.t = "true"

\* src/app.py : handshake meta
HANDSHAKE == [ok |-> TRUE, student_email |-> "evtimm@taltech.ee", algorithm_name |-> "EvaSellsBeer",
              version |-> "v1.0.2", supports |-> [blackbox |-> TRUE, glassbox |-> FALSE],
              message |-> "BeerBot ready"]

\* a fallback per role: the baseline only for the roles whose computation raised
except_orders_per_role(d) ==
    [r \in RoleSet |-> IF d[r].exc THEN INITIAL_DEMAND_ESTIMATE ELSE Max(0, d[r].q)]

\* the except branch of decision(): the orders dict of the try block is dropped
\* whole, {r: INITIAL_DEMAND_ESTIMATE for r in ROLES}; d = the per-role results
except_orders(d) == [r \in RoleSet |-> INITIAL_DEMAND_ESTIMATE]

\* def decision() of src/app.py on request body b: [resp, ret, ran]
decision(b) ==
    IF b.t = "scalar" THEN [resp |-> ExceptionResponse, ret |-> "raised", ran |-> {}]
    ELSE IF b.t = "map" /\ is_True(b.handshake)
    THEN [resp |-> HandshakeResponse(HANDSHAKE), ret |-> "handshake", ran |-> {}]
    ELSE IF no_weeks(WeeksOf(b))
    THEN [resp |-> OrdersResponse([r \in RoleSet |-> INITIAL_DEMAND_ESTIMATE]),
          ret |-> "default", ran |-> {}]
    ELSE LET d == [r \in RoleSet |-> decide_for_role(WeeksOf(b).l, r)]
             raises == [r \in RoleSet |-> d[r].exc]
         IN  IF \E r \in RoleSet : raises[r]
             THEN [resp |-> OrdersResponse(except_orders(d)),
                   ret |-> "fallback", ran |-> RolesReached(raises)]
             ELSE [resp |-> OrdersResponse([r \in RoleSet |-> Max(0, d[r].q)]),
                   ret |-> "computed", ran |-> RoleSet]

\* ------------------------------------------------------------------------
\* src/BeerGame.py
\* ------------------------------------------------------------------------
BG_ALPHA == 30
BG_BETA == 60
BG_K_SAFETY == 50
BG_HORIZON == 4
BG_HANDSHAKE == [ok |-> TRUE, student_email |-> "evtimm@taltech.ee", algorithm_name |-> "EvaFeaturing5.0",
                 version |-> "v1.0.0", supports |-> [blackbox |-> TRUE, glassbox |-> FALSE],
                 message |-> "BeerBot ready"]

\* round_half_up of src/BeerGame.py without its guard for x <= 0
BG_round_half_up_unguarded(num, den) == (2 * num + den) \div (2 * den)

\* def round_half_up(x): 0 if x <= 0 else int(x + 0.5), x = num / den
BG_round_half_up(num, den) == IF num <= 0 THEN 0 ELSE (2 * num + den) \div (2 * den)

\* the loop body of smooth_forecast_and_mae for week i; st = [exc, none, fc, mae]
BG_smooth_step(st, weeks, i, role, alpha) ==
    LET w == weeks[i]
    IN  IF st.exc THEN st
        ELSE IF RoleLookupRaises(w, role) \/ w.roles.m[role].t # "map"
             THEN [st EXCEPT !.exc = TRUE]
        ELSE LET raw == Get(w.roles.m[role].incoming_orders, Num(0))
             IN  IF raw.t # "int" THEN [st EXCEPT !.exc = TRUE]
                 ELSE LET d == Max(0, raw.v)
                      IN  IF st.none
                          THEN [exc |-> FALSE, none |-> FALSE, fc |-> d * SCALE, mae |-> 0]
                          ELSE LET prev_fc == st.fc
                               IN  [exc |-> FALSE, none |-> FALSE,
                                    fc |-> (alpha * d * SCALE + (HUNDRED - alpha) * st.fc) \div HUNDRED,
                                    mae |-> (alpha * Abs(d * SCALE - prev_fc) + (HUNDRED - alpha) * st.mae) \div HUNDRED]

RECURSIVE BG_smooth_loop(_, _, _, _)
BG_smooth_loop(weeks, i, role, alpha) ==
    IF i = 0 THEN [exc |-> FALSE, none |-> TRUE, fc |-> 0, mae |-> 0]
    ELSE BG_smooth_step(BG_smooth_loop(weeks, i - 1, role, alpha), weeks, i, role, alpha)

\* def smooth_forecast_and_mae(weeks, role, alpha): returns [exc, fc, mae]
smooth_forecast_and_mae(weeks, role, alpha) ==
    LET st == BG_smooth_loop(weeks, Len(weeks), role, alpha)
    IN  IF st.exc THEN [exc |-> TRUE, fc |-> 0, mae |-> 0]
        ELSE [exc |-> FALSE, fc |-> IF st.none THEN 0 ELSE st.fc, mae |-> st.mae]

\* projected_position leaving arriving_shipments out of the projected backlog
projected_position_backlog_without_arrivals(role_state) ==
    LET inv == Get(role_state.inventory, Num(0))
        bkl == Get(role_state.backlog, Num(0))
        inc == Get(role_state.incoming_orders, Num(0))
        arr == Get(role_state.arriving_shipments, Num(0))
    IN  IF role_state.t # "map" \/ inv.t # "int" \/ bkl.t # "int" \/ inc.t # "int" \/ arr.t # "int"
        THEN [exc |-> TRUE, on_hand_proj |-> 0, backlog_proj |-> 0, ip |-> 0]
        ELSE LET on_hand_proj == Max(0, inv.v + arr.v - bkl.v - inc.v)
                 backlog_proj == Max(0, bkl.v + inc.v - inv.v)
             IN  [exc |-> FALSE, on_hand_proj |-> on_hand_proj, backlog_proj |-> backlog_proj,
                  ip |-> on_hand_proj - backlog_proj]

\* def projected_position(role_state): returns [exc, on_hand_proj, backlog_proj, ip]
projected_position(role_state) ==
    LET inv == Get(role_state.inventory, Num(0))
        bkl == Get(role_state.backlog, Num(0))
        inc == Get(role_state.incoming_orders, Num(0))
        arr == Get(role_state.arriving_shipments, Num(0))
    IN  IF role_state.t # "map" \/ inv.t # "int" \/ bkl.t # "int" \/ inc.t # "int" \/ arr.t # "int"
        THEN [exc |-> TRUE, on_hand_proj |-> 0, backlog_proj |-> 0, ip |-> 0]
        ELSE LET on_hand_proj == Max(0, inv.v + arr.v - bkl.v - inc.v)
                 backlog_proj == Max(0, bkl.v + inc.v - (inv.v + arr.v))
             IN  [exc |-> FALSE, on_hand_proj |-> on_hand_proj, backlog_proj |-> backlog_proj,
                  ip |-> on_hand_proj - backlog_proj]

\* def last_order(weeks, role) of src/BeerGame.py: returns [exc, v]
last_order(weeks, role) ==
    IF Len(weeks) = 0 THEN [exc |-> FALSE, v |-> 0]
    ELSE IF OrdersLookupRaises(weeks[Len(weeks)]) THEN [exc |-> TRUE, v |-> 0]
    ELSE LET lo == OrdersEntry(weeks[Len(weeks)], role)
         IN  IF lo.t = "int" THEN [exc |-> FALSE, v |-> Max(0, lo.v)] ELSE [exc |-> FALSE, v |-> 0]

BG_Raised == [exc |-> TRUE, q |-> 0, fc |-> 0, mae |-> 0, target |-> 0, ip |-> 0, last |-> 0]

\* the body shared by decide_for_role of src/BeerGame.py and src/beerbot.py
BG_policy(f, pos, lo) ==
    IF f.exc \/ pos.exc \/ lo.exc THEN BG_Raised
    ELSE LET safety == MulFx((BG_K_SAFETY * f.mae) \div HUNDRED, sqrt(BG_HORIZON))
             target == f.fc * BG_HORIZON + safety
             gap == target - pos.ip * SCALE
             order_star == BG_BETA * gap + (HUNDRED - BG_BETA) * lo.v * SCALE
         IN  [exc |-> FALSE, q |-> BG_round_half_up(order_star, HUNDRED * SCALE), fc |-> f.fc,
              mae |-> f.mae, target |-> target, ip |-> pos.ip, last |-> lo.v]

\* def decide_for_role(weeks, role) of src/BeerGame.py
BG_decide_for_role(weeks, role) ==
    IF Len(weeks) = 0 THEN BG_Raised
    ELSE IF RoleLookupRaises(weeks[Len(weeks)], role) THEN BG_Raised
    ELSE BG_policy(smooth_forecast_and_mae(weeks, role, BG_ALPHA),
                   projected_position(weeks[Len(weeks)].roles.m[role]),
                   last_order(weeks, role))

\* def decision() of src/BeerGame.py on request body b: [resp, ret, ran]
BG_decision(b) ==
    IF b.t = "scalar" THEN [resp |-> ExceptionResponse, ret |-> "raised", ran |-> {}]
    ELSE IF b.t = "map" /\ is_True(b.handshake)
    THEN [resp |-> HandshakeResponse(BG_HANDSHAKE), ret |-> "handshake", ran |-> {}]
    ELSE IF no_weeks(WeeksOf(b))
    THEN [resp |-> OrdersResponse([r \in RoleSet |-> 10]), ret |-> "default", ran |-> {}]
    ELSE IF b.mode = "scalar" THEN [resp |-> ExceptionResponse, ret |-> "raised", ran |-> {}]
    ELSE LET d == [r \in RoleSet |-> BG_decide_for_role(WeeksOf(b).l, r)]
             raises == [r \in RoleSet |-> d[r].exc]
         IN  IF \E r \in RoleSet : raises[r]
             THEN [resp |-> ExceptionResponse, ret |-> "raised", ran |-> RolesReached(raises)]
             ELSE [resp |-> OrdersResponse([r \in RoleSet |-> Max(0, d[r].q)]),
                   ret |-> "computed", ran |-> RoleSet]

\* ------------------------------------------------------------------------
\* src/beerbot.py (same tunables and handshake meta as src/BeerGame.py)
\* ------------------------------------------------------------------------
\* def smooth_forecast_and_mae(weeks, role, alpha) of src/beerbot.py
BB_smooth_forecast_and_mae(weeks, role, alpha) ==
    LET st == BG_smooth_loop(weeks, Len(weeks), role, alpha)
    IN  IF st.exc THEN [exc |-> TRUE, fc |-> 0, mae |-> 0]
        ELSE [exc |-> FALSE, fc |-> IF st.none \/ st.fc = 0 THEN 0 ELSE st.fc, mae |-> st.mae]

\* projected_position of src/beerbot.py returning the projected on-hand alone
BB_projected_position_on_hand_only(role_state) ==
    LET inv == Get(role_state.inventory, Num(0))
        bkl == Get(role_state.backlog, Num(0))
        inc == Get(role_state.incoming_orders, Num(0))
        arr == Get(role_state.arriving_shipments, Num(0))
    IN  IF role_state.t # "map" \/ inv.t # "int" \/ bkl.t # "int" \/ inc.t # "int" \/ arr.t # "int"
        THEN [exc |-> TRUE, on_hand |-> 0, backlg |-> 0, ip |-> 0]
        ELSE LET on_hand == Max(0, inv.v + arr.v - bkl.v - inc.v)
                 backlg == Max(0, bkl.v + inc.v - (inv.v + arr.v))
             IN  [exc |-> FALSE, on_hand |-> on_hand, backlg |-> backlg, ip |-> on_hand]

\* def projected_position(role_state) of src/beerbot.py: returns the position
\* alone, ip; on_hand and backlg are its locals
BB_projected_position(role_state) ==
    LET inv == Get(role_state.inventory, Num(0))
        bkl == Get(role_state.backlog, Num(0))
        inc == Get(role_state.incoming_orders, Num(0))
        arr == Get(role_state.arriving_shipments, Num(0))
    IN  IF role_state.t # "map" \/ inv.t # "int" \/ bkl.t # "int" \/ inc.t # "int" \/ arr.t # "int"
        THEN [exc |-> TRUE, on_hand |-> 0, backlg |-> 0, ip |-> 0]
        ELSE LET on_hand == Max(0, inv.v + arr.v - bkl.v - inc.v)
                 backlg == Max(0, bkl.v + inc.v - (inv.v + arr.v))
             IN  [exc |-> FALSE, on_hand |-> on_hand, backlg |-> backlg, ip |-> on_hand - backlg]

\* def last_order(weeks, role) of src/beerbot.py: int() is not guarded
BB_last_order(weeks, role) ==
    IF Len(weeks) = 0 THEN [exc |-> FALSE, v |-> 0]
    ELSE IF OrdersLookupRaises(weeks[Len(weeks)]) THEN [exc |-> TRUE, v |-> 0]
    ELSE LET lo == OrdersEntry(weeks[Len(weeks)], role)
         IN  IF lo.t = "int" THEN [exc |-> FALSE, v |-> Max(0, lo.v)] ELSE [exc |-> TRUE, v |-> 0]

\* def decide_for_role(weeks, role) of src/beerbot.py
BB_decide_for_role(weeks, role) ==
    IF Len(weeks) = 0 THEN BG_Raised
    ELSE IF RoleLookupRaises(weeks[Len(weeks)], role) THEN BG_Raised
    ELSE BG_policy(BB_smooth_forecast_and_mae(weeks, role, BG_ALPHA),
                   BB_projected_position(weeks[Len(weeks)].roles.m[role]),
                   BB_last_order(weeks, role))

\* def decision() of src/beerbot.py on request body b: [resp, ret, ran]
BB_decision(b) ==
    IF b.t = "scalar" THEN [resp |-> ExceptionResponse, ret |-> "raised", ran |-> {}]
    ELSE IF b.t = "map" /\ is_True(b.handshake)
    THEN [resp |-> HandshakeResponse(BG_HANDSHAKE), ret |-> "handshake", ran |-> {}]
    ELSE IF no_weeks(WeeksOf(b))
    THEN [resp |-> OrdersResponse([r \in RoleSet |-> 10]), ret |-> "default", ran |-> {}]
    ELSE LET d == [r \in RoleSet |-> BB_decide_for_role(WeeksOf(b).l, r)]
             raises == [r \in RoleSet |-> d[r].exc]
         IN  IF \E r \in RoleSet : raises[r]
             THEN [resp |-> ExceptionResponse, ret |-> "raised", ran |-> RolesReached(raises)]
             ELSE [resp |-> OrdersResponse([r \in RoleSet |-> Max(0, d[r].q)]),
                   ret |-> "computed", ran |-> RoleSet]

\* ------------------------------------------------------------------------
\* The inputs: week records and request bodies
\* ------------------------------------------------------------------------
RoleState(inv, bkl, inc, arr, cust) ==
    [t |-> "map", inventory |-> inv, backlog |-> bkl, incoming_orders |-> inc,
     arriving_shipments |-> arr, customer_orders |-> cust]

\* well-formed role states: over-stocked with low demand (and the retailer's
\* customer_orders), and out of stock with a backlog and high demand
RS_A == RoleState(Num(30), Num(0), Num(4), Num(4), Num(4))
RS_B == RoleState(Num(0), Num(6), Num(12), Num(0), Absent)
ValidRoleStates == {RS_A, RS_B}

NoOrdersField == [t |-> "absent", m |-> [r \in RoleSet |-> Absent]]
OrdersField(f) == [t |-> "map", m |-> f]
OrderVals == {100}

WeekRecord(week, roles, orders) ==
    [t |-> "map", week |-> week, roles |-> [t |-> "map", m |-> roles], orders |-> orders]

\* the orders a client records in a new week: the orders of the response it just
\* got (the engine's output fed back), none when it got none, or a fixed quantity
RecordedOrders(last) ==
    {OrdersField([r \in RoleSet |-> Num(v)]) : v \in OrderVals}
    \cup (IF last.kind = "orders"
          THEN {OrdersField([r \in RoleSet |-> Num(last.orders[r])])}
          ELSE {NoOrdersField})

ValidRecords(n, last) ==
    {WeekRecord(Num(n), [r \in RoleSet |-> rs], o) :
        rs \in ValidRoleStates, o \in RecordedOrders(last)}

\* a game joined late: the first record the client sends carries no week number 1
LateRecords(n) ==
    IF n = 1 THEN {WeekRecord(Absent, [r \in RoleSet |-> RS_A], OrdersField([r \in RoleSet |-> Num(4)]))}
    ELSE {}

\* degenerate records: not a mapping; a role missing; a non-numeric field;
\* a negative field; a non-numeric and a negative past order
DegenerateRecords(n) ==
    { [WeekRecord(Num(n), [r \in RoleSet |-> RS_A], NoOrdersField) EXCEPT !.t = "scalar"],
      WeekRecord(Num(n), [r \in RoleSet \ {"factory"} |-> RS_A], NoOrdersField),
      WeekRecord(Num(n), [r \in RoleSet |-> IF r = "wholesaler"
                                            THEN [RS_A EXCEPT !.incoming_orders = Str,
                                                              !.inventory = Str]
                                            ELSE RS_A], NoOrdersField),
      WeekRecord(Num(n), [r \in RoleSet |-> IF r = "distributor"
                                            THEN [RS_A EXCEPT !.inventory = Num(-5)]
                                            ELSE RS_A], NoOrdersField),
      WeekRecord(Num(n), [r \in RoleSet |-> RS_A],
                 OrdersField([r \in RoleSet |-> CASE r = "factory" -> Str
                                                   [] r = "distributor" -> Num(-3)
                                                   [] OTHER -> Num(4)])) }

WeekRecords(n, last) == ValidRecords(n, last) \cup LateRecords(n) \cup DegenerateRecords(n)

Body(t, handshake, wk, mode) == [t |-> t, handshake |-> handshake, weeks |-> wk, mode |-> mode]
ListOf(h) == [t |-> "list", l |-> h]
NoWeeks == [t |-> "absent", l |-> << >>]
NotAList == [t |-> "other", l |-> << >>]
NoBody == Body("none", Absent, NoWeeks, "absent")

\* the request bodies a client may send when the history store holds h:
\* a JSON value that is not a mapping, an unparsable or empty body (no weeks
\* field), weeks that is not a list, a handshake (with or without weeks), a
\* weekly request whose handshake field is 1, and the weekly request with each
\* kind of mode
Bodies(h) ==
    { Body("scalar", Absent, NoWeeks, "absent"),
      Body("empty", Absent, NoWeeks, "absent"),
      Body("map", Absent, NotAList, "absent"),
      Body("map", JTrue, NoWeeks, "absent"),
      Body("map", JTrue, ListOf(h), "absent"),
      Body("map", Num(1), ListOf(h), "absent") }
    \cup {Body("map", Absent, ListOf(h), m) : m \in {"blackbox", "glassbox", "scalar"}}

\* ------------------------------------------------------------------------
\* The state machine
\* ------------------------------------------------------------------------
Variants == {"app", "BeerGame", "beerbot"}

\* POST /api/decision as served by the deployed variant
Serve(b) ==
    CASE deployed = "app" -> decision(b)
      [] deployed = "BeerGame" -> BG_decision(b)
      [] deployed = "beerbot" -> BB_decision(b)

\* decide_for_role of the deployed variant
Decide(h, r) ==
    CASE deployed = "app" -> decide_for_role(h, r)
      [] deployed = "BeerGame" -> BG_decide_for_role(h, r)
      [] deployed = "beerbot" -> BB_decide_for_role(h, r)

\* no call of calculate_pipeline was made on the current history
NoProbe == [role |-> "none", lead_time |-> 0, exc |-> FALSE, pipeline |-> 0]

\* the locals of a decide_for_role call that has not started
NoLocals == [exc |-> FALSE, early |-> FALSE, gap |-> 0, q_last |-> 0, ramp |-> 0, q |-> 0,
             after |-> {}]

Init ==
    /\ deployed \in Variants
    /\ BETA_BY_ROLE = BETA_BY_ROLE_0
    /\ history = << >>
    /\ body = NoBody
    /\ resp = NoResponse
    /\ ret = "none"
    /\ ran = {}
    /\ answers = {}
    /\ probe = NoProbe
    /\ pc = [r \in RoleSet |-> "idle"]
    /\ loc = [r \in RoleSet |-> NoLocals]

\* one of the records recs is appended to the history store; the exchange of
\* the week before is over
AppendFrom(recs) ==
    /\ \E rec \in recs : history' = Append(history, rec)
    /\ body' = NoBody /\ resp' = NoResponse /\ ret' = "none" /\ ran' = {}
    /\ probe' = NoProbe
    /\ UNCHANGED <<deployed, BETA_BY_ROLE, answers, pc, loc>>

\* the game loop appends the record of a new week to the history store
AppendWeek ==
    /\ Len(history) < MaxWeeks
    /\ AppendFrom(WeekRecords(Len(history) + 1, resp))

\* a new game session starts with an empty history store
NewGame ==
    /\ Len(history) > 0
    /\ history' = << >>
    /\ body' = NoBody /\ resp' = NoResponse /\ ret' = "none" /\ ran' = {}
    /\ probe' = NoProbe
    /\ UNCHANGED <<deployed, BETA_BY_ROLE, answers, pc, loc>>

\* the handler reading past orders with setdefault in place of get: a record
\* without an orders field is given an empty one
Handle_fills_orders(b) ==
    /\ body' = [b EXCEPT !.weeks.l =
                    [i \in 1..Len(b.weeks.l) |->
                        IF b.weeks.l[i].t = "map" /\ b.weeks.l[i].orders.t = "absent"
                        THEN [b.weeks.l[i] EXCEPT !.orders.t = "map"]
                        ELSE b.weeks.l[i]]]
    /\ LET out == Serve(b)
       IN  resp' = out.resp /\ ret' = out.ret /\ ran' = out.ran
    /\ UNCHANGED <<deployed, BETA_BY_ROLE>>

\* the handler with a side effect: it retunes the retailer's beta in the module dict
Handle_retunes(b) ==
    /\ body' = b
    /\ LET out == Serve(b)
       IN  resp' = out.resp /\ ret' = out.ret /\ ran' = out.ran
    /\ BETA_BY_ROLE' = [BETA_BY_ROLE EXCEPT !["retailer"] = 1]
    /\ UNCHANGED deployed

\* the handler runs on body b; it reads the module state and writes none of it
Handle(b) ==
    /\ body' = b
    /\ LET out == Serve(b)
       IN  resp' = out.resp /\ ret' = out.ret /\ ran' = out.ran
    /\ UNCHANGED <<deployed, BETA_BY_ROLE>>

\* the client's request of the current week arrives (one exchange per week)
Decision ==
    /\ body = NoBody
    /\ \E b \in Bodies(history) : Handle(b)
    /\ UNCHANGED <<history, answers, probe, pc, loc>>

Next == AppendWeek \/ NewGame \/ Decision

Spec == Init /\ [][Next]_vars

\* ------------------------------------------------------------------------
\* Replay: one process serves requests of several clients in any order
\* ------------------------------------------------------------------------
RH_first == <<WeekRecord(Num(1), [r \in RoleSet |-> RS_A], NoOrdersField)>>
RH_late == <<WeekRecord(Absent, [r \in RoleSet |-> RS_A], OrdersField([r \in RoleSet |-> Num(4)]))>>
RH_two == <<WeekRecord(Num(1), [r \in RoleSet |-> RS_B], OrdersField([r \in RoleSet |-> Num(10)])),
            WeekRecord(Num(2), [r \in RoleSet |-> RS_A], OrdersField([r \in RoleSet |-> Num(10)]))>>
RH_bad == <<WeekRecord(Num(1), [r \in RoleSet \ {"factory"} |-> RS_A], NoOrdersField)>>
ReplayHistories == {RH_first, RH_late, RH_two, RH_bad}

\* weekly requests on each history (one of them failing), a handshake, and a
\* body that is not a mapping
ReplayBodies ==
    {Body("map", Absent, ListOf(h), "blackbox") : h \in ReplayHistories}
    \cup {Body("map", JTrue, NoWeeks, "absent"), Body("scalar", Absent, NoWeeks, "absent")}

\* the replay log after b was answered with r: the first answer to each body,
\* whether another body was served since, and whether b was then served again
Logged(log, b, r) ==
    LET old == {a \in log : a.b = b}
        others == {[a EXCEPT !.between = TRUE] : a \in log \ old}
    IN  IF old = {} THEN others \cup {[b |-> b, r |-> r, between |-> FALSE, again |-> FALSE]}
        ELSE others \cup {[a EXCEPT !.again = a.between] : a \in old}

\* a request of some client arrives
Replay ==
    /\ \E b \in ReplayBodies : Handle(b)
    /\ answers' = Logged(answers, body', resp')
    /\ UNCHANGED <<history, probe, pc, loc>>

NextReplay == Replay

SpecReplay == Init /\ [][NextReplay]_vars

\* ------------------------------------------------------------------------
\* Steady demand: every role receives 8 orders every week of a long game
\* ------------------------------------------------------------------------
RS_S == RoleState(Num(12), Num(0), Num(8), Num(8), Num(8))
SteadyRecord(n) ==
    WeekRecord(Num(n), [r \in RoleSet |-> RS_S], OrdersField([r \in RoleSet |-> Num(8)]))

\* the game loop appends one more week of the same demand
AppendSteadyWeek ==
    /\ Len(history) < MaxSteadyWeeks
    /\ AppendFrom({SteadyRecord(Len(history) + 1)})

NextSteady == AppendSteadyWeek \/ Decision

SpecSteady == Init /\ [][NextSteady]_vars

\* ------------------------------------------------------------------------
\* Pipeline reconstruction called on its own, for several settings of LEAD_TIME
\* ------------------------------------------------------------------------
LeadTimes == {1, 2, 3}

\* calculate_pipeline runs on the history store for one role
Reconstruct ==
    /\ \E r \in RoleSet, L \in LeadTimes :
          LET p == pipeline_with(history, r, L)
          IN  probe' = [role |-> r, lead_time |-> L, exc |-> p.exc, pipeline |-> p.v]
    /\ UNCHANGED <<deployed, BETA_BY_ROLE, history, body, resp, ret, ran, answers, pc, loc>>

NextPipeline == AppendWeek \/ NewGame \/ Reconstruct

SpecPipeline == Init /\ [][NextPipeline]_vars

\* ------------------------------------------------------------------------
\* One worker per role: the role loop of decision() with the four calls of
\* decide_for_role running side by side, each in two steps
\* ------------------------------------------------------------------------
RH_three == <<WeekRecord(Num(1), [r \in RoleSet |-> RS_A], NoOrdersField),
              WeekRecord(Num(2), [r \in RoleSet |-> RS_B], OrdersField([r \in RoleSet |-> Num(10)])),
              WeekRecord(Num(3), [r \in RoleSet |-> RS_B], OrdersField([r \in RoleSet |-> Num(11)]))>>

WorkerBodies ==
    {Body("map", Absent, ListOf(h), "blackbox") : h \in ReplayHistories \cup {RH_three}}

\* what a call of decide_for_role holds once it has read the history: whether
\* it raised, whether its order is already fixed (the week-1 return of
\* src/app.py; the earlier variants, which read no module dict), and the gap,
\* previous order and ramp the order is made from
ReadLocals(weeks, role) ==
    IF deployed = "app"
    THEN LET d == decide_for_role(weeks, role)
         IN  [exc |-> d.exc, early |-> d.first,
              gap |-> IF d.exc \/ d.first THEN 0 ELSE d.target_S - d.IP * SCALE,
              q_last |-> d.q_last, ramp |-> d.ramp, q |-> IF d.first THEN d.q ELSE 0,
              after |-> {}]
    ELSE LET d == Decide(weeks, role)
         IN  [exc |-> d.exc, early |-> TRUE, gap |-> 0, q_last |-> d.last, ramp |-> 0,
              q |-> d.q, after |-> {}]

\* the order made from the locals l with damping beta
OrderFrom(l, beta) ==
    IF l.exc \/ l.early THEN l.q
    ELSE Max(0, ramp_clamp(l.q_last, l.ramp,
                           round_half_up(partial_adjustment(l.gap, l.q_last, beta), HUNDRED * SCALE)))

\* decision() hands the weeks of a weekly request to four workers
Fork ==
    /\ \A r \in RoleSet : pc[r] = "idle"
    /\ \E b \in WorkerBodies : body' = b
    /\ resp' = NoResponse /\ ret' = "none" /\ ran' = {}
    /\ pc' = [r \in RoleSet |-> "start"]
    /\ loc' = [r \in RoleSet |-> NoLocals]
    /\ UNCHANGED <<deployed, BETA_BY_ROLE, history, answers, probe>>

\* the worker of role r runs decide_for_role up to the gap: it reads the weeks
WorkerRead(r) ==
    /\ pc[r] = "start"
    /\ loc' = [loc EXCEPT ![r] = ReadLocals(WeeksOf(body).l, r)]
    /\ pc' = [pc EXCEPT ![r] = "read"]
    /\ UNCHANGED <<deployed, BETA_BY_ROLE, history, body, resp, ret, ran, answers, probe>>

\* a worker that also retunes the retailer's beta in the module dict
WorkerOrder_retunes(r) ==
    /\ pc[r] = "read"
    /\ loc' = [loc EXCEPT ![r] = [loc[r] EXCEPT !.q = OrderFrom(loc[r], BETA_BY_ROLE[r]),
                                                !.after = {o \in RoleSet : pc[o] = "done"}]]
    /\ pc' = [pc EXCEPT ![r] = "done"]
    /\ BETA_BY_ROLE' = [BETA_BY_ROLE EXCEPT !["retailer"] = 1]
    /\ UNCHANGED <<deployed, history, body, resp, ret, ran, answers, probe>>

\* the worker of role r finishes decide_for_role: it reads its beta from the
\* module dict and makes its order; it notes which workers were done before it
WorkerOrder(r) ==
    /\ pc[r] = "read"
    /\ loc' = [loc EXCEPT ![r] = [loc[r] EXCEPT !.q = OrderFrom(loc[r], BETA_BY_ROLE[r]),
                                                !.after = {o \in RoleSet : pc[o] = "done"}]]
    /\ pc' = [pc EXCEPT ![r] = "done"]
    /\ UNCHANGED <<deployed, BETA_BY_ROLE, history, body, resp, ret, ran, answers, probe>>

\* decision() collects the four results: the orders mapping, or what each
\* variant does when a call raised
Join ==
    /\ \A r \in RoleSet : pc[r] = "done"
    /\ IF \E r \in RoleSet : loc[r].exc
       THEN IF deployed = "app"
            THEN resp' = OrdersResponse([r \in RoleSet |-> INITIAL_DEMAND_ESTIMATE]) /\ ret' = "fallback"
            ELSE resp' = ExceptionResponse /\ ret' = "raised"
       ELSE resp' = OrdersResponse([r \in RoleSet |-> Max(0, loc[r].q)]) /\ ret' = "computed"
    /\ ran' = RoleSet
    /\ pc' = [r \in RoleSet |-> "idle"]
    /\ UNCHANGED <<deployed, BETA_BY_ROLE, history, body, answers, probe, loc>>

NextWorkers == Fork \/ (\E r \in RoleSet : WorkerRead(r)) \/ (\E r \in RoleSet : WorkerOrder(r)) \/ Join

SpecWorkers == Init /\ [][NextWorkers]_vars

\* ------------------------------------------------------------------------
\* The two earlier variants on integer inputs of either sign
\* ------------------------------------------------------------------------
MaxVariantWeeks == 2

\* quantities a request may carry: JSON integers, negative ones included
IntegerQuantities == {-4, 0, 9}

IntegerStates ==
    {RoleState(Num(inv), Num(bkl), Num(inc), Num(arr), Absent) :
        inv \in IntegerQuantities, bkl \in IntegerQuantities,
        inc \in IntegerQuantities, arr \in IntegerQuantities}

IntegerOrders ==
    {NoOrdersField, OrdersField([r \in RoleSet |-> Num(-2)]), OrdersField([r \in RoleSet |-> Num(6)])}

\* the record of the first week holds any of the integer states; later weeks
\* hold one of three
IntegerRecords(n) ==
    {WeekRecord(Num(n), [r \in RoleSet |-> rs], o) :
        rs \in IF n = 1 THEN IntegerStates
               ELSE {RS_A, RS_B, RoleState(Num(-4), Num(3), Num(0), Num(-4), Absent)},
        o \in IF n = 1 THEN IntegerOrders ELSE {NoOrdersField}}

InitVariants == Init /\ deployed \in {"BeerGame", "beerbot"}

AppendInteger ==
    /\ Len(history) < MaxVariantWeeks
    /\ AppendFrom(IntegerRecords(Len(history) + 1))

\* projected_position of the deployed variant with its locals: [exc, on_hand, backlog, ip]
PositionOf(role_state) ==
    IF deployed = "BeerGame"
    THEN LET p == projected_position(role_state)
         IN  [exc |-> p.exc, on_hand |-> p.on_hand_proj, backlog |-> p.backlog_proj, ip |-> p.ip]
    ELSE LET p == BB_projected_position(role_state)
         IN  [exc |-> p.exc, on_hand |-> p.on_hand, backlog |-> p.backlg, ip |-> p.ip]

\* projected_position(weeks[-1]["roles"][role]) is called for one role
Project ==
    /\ Len(history) > 0
    /\ \E r \in RoleSet :
          probe' = [role |-> r, state |-> history[Len(history)].roles.m[r],
                    pos |-> PositionOf(history[Len(history)].roles.m[r])]
    /\ UNCHANGED <<deployed, BETA_BY_ROLE, history, body, resp, ret, ran, answers, pc, loc>>

\* requests served by either of the two variants
NextVariants == AppendInteger \/ NewGame \/ Decision

SpecVariants == InitVariants /\ [][NextVariants]_vars

\* calls of projected_position alone
NextPosition == AppendInteger \/ NewGame \/ Project

SpecPosition == InitVariants /\ [][NextPosition]_vars

\* ------------------------------------------------------------------------
\* Properties
\* ------------------------------------------------------------------------
FieldOK(x) == x.t = "int" /\ x.v >= 0
OptFieldOK(x) == x.t = "absent" \/ FieldOK(x)

RoleStateOK(rs) ==
    /\ rs.t = "map"
    /\ FieldOK(rs.inventory) /\ FieldOK(rs.backlog)
    /\ FieldOK(rs.incoming_orders) /\ FieldOK(rs.arriving_shipments)
    /\ OptFieldOK(rs.customer_orders)

RecordOK(w) ==
    /\ w.t = "map"
    /\ OptFieldOK(w.week)
    /\ w.roles.t = "map" /\ DOMAIN w.roles.m = RoleSet
    /\ \A r \in RoleSet : RoleStateOK(w.roles.m[r])
    /\ w.orders.t # "scalar"
    /\ \A r \in RoleSet : OptFieldOK(w.orders.m[r])

\* every record is a mapping with all four roles, every numeric field a natural
WellFormed(h) == \A i \in 1..Len(h) : RecordOK(h[i])

\* the history carried by the last request
Sent == WeeksOf(body).l

\* the last request took the weekly path with a non-empty list of weeks
WeeklyRequest ==
    /\ body.t = "map" /\ ~is_True(body.handshake)
    /\ body.weeks.t = "list" /\ Len(body.weeks.l) > 0

\* the last request asked for a decision (it was not a handshake)
DecisionRequest == body.t # "none" /\ ~(body.t = "map" /\ is_True(body.handshake))

Baseline == [r \in RoleSet |-> INITIAL_DEMAND_ESTIMATE]

\* C1: for a non-empty history whose numeric fields are naturals, decide_for_role
\* of every variant returns a natural for each role without raising, and the
\* response maps each of the four roles to a natural.
C1_NonNegativeOrders ==
    (WeeklyRequest /\ body.mode # "scalar" /\ WellFormed(Sent)) =>
        /\ resp.kind = "orders"
        /\ \A r \in RoleSet : resp.orders[r] \in Nat
        /\ \A r \in RoleSet : ~Decide(Sent, r).exc /\ Decide(Sent, r).q \in Nat

\* C1 witness: a well-formed history of two weeks or more was decided, one role
\* ordering nothing (its unrounded order is not positive) and another something
C1_Witness ==
    /\ WeeklyRequest /\ WellFormed(Sent) /\ Len(Sent) >= 2
    /\ ret = "computed"
    /\ \E r \in RoleSet : resp.orders[r] = 0
    /\ \E r \in RoleSet : resp.orders[r] > 0

\* C2: whatever the body of a decision request, the response is a mapping of the
\* four roles to naturals, no exception leaves the handler, and a request on
\* which the computation failed is answered with the baseline 10 for every role.
C2_NoFatalInput ==
    DecisionRequest =>
        /\ resp.kind = "orders"
        /\ \A r \in RoleSet : resp.orders[r] \in Nat
        /\ (ret \in {"fallback", "raised"} => resp.orders = Baseline)

\* C3: a decision request with no history (no weeks field, weeks not a list, or
\* an empty list) is answered with 10 for every role from the default return,
\* and decide_for_role runs for no role.
C3_EmptyHistoryBaseline ==
    (DecisionRequest /\ body.t # "scalar" /\ (WeeksOf(body).t # "list" \/ Len(WeeksOf(body).l) = 0)) =>
        /\ resp = OrdersResponse(Baseline)
        /\ ret = "default"
        /\ ran = {}

\* C3 witness: a request carrying an empty list of weeks was answered
C3_Witness ==
    /\ body.t = "map" /\ ~is_True(body.handshake)
    /\ body.weeks.t = "list" /\ Len(body.weeks.l) = 0
    /\ resp.kind = "orders"

\* C4: a body is answered as it was answered the first time, whatever requests
\* (other histories, handshakes, failing bodies) were served before or between.
C4_Deterministic == \A a \in answers : a.b = body => a.r = resp

\* C4 witness: a weekly request was computed, other requests were served, and
\* the same request was then served again
C4_Witness ==
    /\ ret = "computed"
    /\ \E a \in answers : a.b = body /\ a.between /\ a.again
    /\ \E a \in answers : a.b # body /\ a.r.kind = "exception"
    /\ \E a \in answers : a.b # body /\ a.r.kind = "handshake"

\* the order recorded for role r in the last record of the sent history (0 when
\* the record has none), and whether one is recorded
RecordedOrder(r) == OrdersEntry(Sent[Len(Sent)], r).v
HasRecordedOrder(r) == Sent[Len(Sent)].orders.t = "map" /\ Sent[Len(Sent)].orders.m[r].t = "int"

\* max(1, round_half_up(ramp_fraction * max(forecast, 1))) with MAX_ORDER_CHANGE
RampOf(fc) == Max(1, round_half_up(MAX_ORDER_CHANGE * Max(fc, SCALE), HUNDRED * SCALE))

\* the week-1 decision of src/app.py: a single record whose week is 1
WeekOne == Len(Sent) = 1 /\ Sent[1].week = Num(1)

\* the last request was a weekly request on a well-formed history, computed by src/app.py
AppComputed == deployed = "app" /\ WeeklyRequest /\ WellFormed(Sent) /\ ret = "computed"

\* C5 as claimed: every decision of src/app.py, the first of a game included,
\* stays within the ramp of the order recorded in the last week record.
C5_RampBoundFromFirst ==
    AppComputed =>
        \A r \in RoleSet :
            HasRecordedOrder(r) =>
                Abs(resp.orders[r] - RecordedOrder(r))
                    <= RampOf(smooth_forecast_and_mad(Sent, r, ALPHA).fc)

\* C5 amended: every decision of src/app.py other than the week-1 decision
\* stays within the ramp of the order recorded in the last week record (0 when
\* none is recorded).
C5_RampBound ==
    (AppComputed /\ ~WeekOne) =>
        \A r \in RoleSet :
            Abs(resp.orders[r] - RecordedOrder(r))
                <= RampOf(smooth_forecast_and_mad(Sent, r, ALPHA).fc)

\* C5 witness: a later decision in which the ramp cut the order: the rounded
\* partial adjustment lies more than ramp below the recorded order
C5_Witness ==
    /\ AppComputed /\ ~WeekOne /\ Len(Sent) >= 2
    /\ \E r \in RoleSet :
          LET d == decide_for_role(Sent, r)
          IN  /\ HasRecordedOrder(r)
              /\ round_half_up(d.q_base, HUNDRED * SCALE) < d.q_last - d.ramp
              /\ resp.orders[r] = d.q_last - d.ramp

\* multipliers tried for the ceiling cap_multiplier * target
CapMultipliers == {1, 2, 3}

\* C6: every order of src/app.py is at most round_half_up(cap_multiplier * target),
\* target being the order-up-to target of the same decision.
C6_CapBound ==
    AppComputed =>
        \A r \in RoleSet :
            LET d == decide_for_role(Sent, r)
            IN  ~d.first => \E c \in CapMultipliers :
                                resp.orders[r] <= round_half_up(c * d.target_S, SCALE)

\* the forecaster of the deployed variant on history h: [exc, fc, err]
Forecast(h, r) ==
    CASE deployed = "app" ->
            LET f == smooth_forecast_and_mad(h, r, ALPHA)
            IN  [exc |-> f.exc, fc |-> f.fc, err |-> f.mad]
      [] deployed = "BeerGame" ->
            LET f == smooth_forecast_and_mae(h, r, BG_ALPHA)
            IN  [exc |-> f.exc, fc |-> f.fc, err |-> f.mae]
      [] deployed = "beerbot" ->
            LET f == BB_smooth_forecast_and_mae(h, r, BG_ALPHA)
            IN  [exc |-> f.exc, fc |-> f.fc, err |-> f.mae]

\* the smoothing weight and the demand the deployed variant observes in record w
AlphaDeployed == IF deployed = "app" THEN ALPHA ELSE BG_ALPHA
ObservedDemand(w, r) ==
    LET key == IF deployed = "app" /\ r = "retailer" THEN "customer_orders" ELSE "incoming_orders"
    IN  Max(0, Get(w.roles.m[r][key], Num(0)).v)

\* one smoothing update of (level, error estimate) with demand d:
\* level <- a*d + (1-a)*level, error <- a*|d - level| + (1-a)*error
SmoothingUpdate(level, err, d, a) ==
    [fc |-> (a * d * SCALE + (HUNDRED - a) * level) \div HUNDRED,
     err |-> (a * Abs(d * SCALE - level) + (HUNDRED - a) * err) \div HUNDRED]

\* C7: the forecast and error estimate returned for a history of k+1 records
\* are those returned for its first k records after one smoothing update with
\* record k+1.
C7_ReplayStable ==
    (WeeklyRequest /\ WellFormed(Sent) /\ Len(Sent) >= 2) =>
        \A r \in RoleSet :
            LET full == Forecast(Sent, r)
                pre == Forecast(SubSeq(Sent, 1, Len(Sent) - 1), r)
                d == ObservedDemand(Sent[Len(Sent)], r)
            IN  [fc |-> full.fc, err |-> full.err] = SmoothingUpdate(pre.fc, pre.err, d, AlphaDeployed)

\* C8: on a single-week history a role with incoming_orders = 12 gets forecast
\* exactly 12 and error estimate exactly 0.
C8_ColdStart ==
    (WeeklyRequest /\ WellFormed(Sent) /\ Len(Sent) = 1) =>
        \A r \in RoleSet :
            Sent[1].roles.m[r].incoming_orders = Num(12) =>
                Forecast(Sent, r).fc = 12 * SCALE /\ Forecast(Sent, r).err = 0

\* every role receives 8 orders in every week of h
Steady(h) == \A i \in 1..Len(h) : RecordOK(h[i]) /\
                \A r \in RoleSet : h[i].roles.m[r].incoming_orders = Num(8)

Tolerance == SCALE \div HUNDRED

\* C9: under steady demand 8, one more week never moves the forecast away from
\* 8 nor the error estimate away from 0, and from 20 weeks on both are within
\* the tolerance 0.01 of 8 and of 0.
C9_SteadyConverges ==
    (WeeklyRequest /\ Steady(Sent)) =>
        \A r \in RoleSet :
            LET full == Forecast(Sent, r)
                pre == Forecast(SubSeq(Sent, 1, Len(Sent) - 1), r)
            IN  /\ Len(Sent) >= 2 =>
                      /\ Abs(full.fc - 8 * SCALE) <= Abs(pre.fc - 8 * SCALE)
                      /\ full.err <= pre.err
                /\ Len(Sent) >= 20 =>
                      /\ Abs(full.fc - 8 * SCALE) <= Tolerance
                      /\ full.err <= Tolerance

\* what another role's state may be changed to: a well-formed state, or one with
\* non-numeric fields; and what another role's past order may be changed to
OtherRoleStates == ValidRoleStates \cup {[RS_A EXCEPT !.incoming_orders = Str, !.inventory = Str]}
OtherOrders == {Num(0), Num(100), Str}

\* the sent history with role o's state in record i replaced by s
WithRoleState(i, o, s) == [Sent EXCEPT ![i].roles.m[o] = s]
\* the sent history with role o's past order in record i replaced by v
WithOrder(i, o, v) ==
    [Sent EXCEPT ![i].orders = OrdersField([Sent[i].orders.m EXCEPT ![o] = v])]

\* the last request with history h in place of the sent one
SameRequestOn(h) == [body EXCEPT !.weeks = ListOf(h)]

\* C10: the order of a role is unchanged by any change of another role's state
\* or past order in any week record, malformed values included.
C10_RoleIndependent ==
    (WeeklyRequest /\ WellFormed(Sent) /\ resp.kind = "orders") =>
        \A r \in RoleSet : \A o \in RoleSet \ {r} : \A i \in 1..Len(Sent) :
            /\ \A s \in OtherRoleStates :
                  LET out == Serve(SameRequestOn(WithRoleState(i, o, s))).resp
                  IN  out.kind = "orders" /\ out.orders[r] = resp.orders[r]
            /\ \A v \in OtherOrders :
                  LET out == Serve(SameRequestOn(WithOrder(i, o, v))).resp
                  IN  out.kind = "orders" /\ out.orders[r] = resp.orders[r]

\* every record is a mapping that holds a role state for each of the four roles
\* and, when it holds past orders, a mapping of them
Shaped(h) ==
    \A i \in 1..Len(h) :
        /\ h[i].t = "map"
        /\ h[i].roles.t = "map" /\ DOMAIN h[i].roles.m = RoleSet
        /\ \A r \in RoleSet : h[i].roles.m[r].t = "map"
        /\ h[i].orders.t # "scalar"

\* a numeric field as the data model coerces it: negative or non-numeric is 0
Coerced(x) == IF x.t = "absent" \/ FieldOK(x) THEN x ELSE Num(0)

CoercedState(rs) ==
    [rs EXCEPT !.inventory = Coerced(rs.inventory), !.backlog = Coerced(rs.backlog),
               !.incoming_orders = Coerced(rs.incoming_orders),
               !.arriving_shipments = Coerced(rs.arriving_shipments),
               !.customer_orders = Coerced(rs.customer_orders)]

CoercedRecord(w) ==
    [w EXCEPT !.roles = [t |-> "map", m |-> [r \in RoleSet |-> CoercedState(w.roles.m[r])]],
              !.orders = [t |-> w.orders.t, m |-> [r \in RoleSet |-> Coerced(w.orders.m[r])]]]

\* history h with every negative or non-numeric field replaced by 0
Zeroed(h) == [i \in 1..Len(h) |-> CoercedRecord(h[i])]

\* C11: a negative or non-numeric field of a week record (inventory, backlog,
\* demand, arriving_shipments, past order) gives the forecast, position,
\* pipeline and order, and the response, that the same history gives with that
\* field set to 0.
C11_FieldsCoerced ==
    (WeeklyRequest /\ body.mode # "scalar" /\ Shaped(Sent)) =>
        /\ resp = Serve(SameRequestOn(Zeroed(Sent))).resp
        /\ \A r \in RoleSet : Decide(Sent, r) = Decide(Zeroed(Sent), r)

\* C12: with a lead time of 1 the reconstructed pipeline is 0, without raising,
\* for every history and whatever the past orders hold.
C12_NoPipelineAtLeadOne ==
    probe.lead_time = 1 => ~probe.exc /\ probe.pipeline = 0

\* C12 witness: the pipeline was reconstructed with lead time 1 on a history of
\* two weeks or more in which the role ordered 100 every week
C12_Witness ==
    /\ probe.lead_time = 1 /\ probe.pipeline = 0
    /\ Len(history) >= 2
    /\ \A i \in 1..Len(history) :
          /\ history[i].t = "map" /\ history[i].orders.t = "map"
          /\ history[i].orders.m[probe.role] = Num(100)

\* the lead-time estimator as section 4.2 of the specification describes it:
\* the correlation score of lag L over history h for role r is the sum over
\* the weeks t of orders[t - L] * arrivals[t]
RECURSIVE LagScoreFrom(_, _, _, _)
LagScoreFrom(h, r, L, t) ==
    IF t > Len(h) THEN 0
    ELSE OrdersEntry(h[t - L], r).v * Get(h[t].roles.m[r].arriving_shipments, Num(0)).v
         + LagScoreFrom(h, r, L, t + 1)

LagScore(h, r, L) == LagScoreFrom(h, r, L, L + 1)

\* the candidate lags: 1 .. min(max_lag, history_length - 1)
CandidateLags(h, max_lag) == 1..Min(max_lag, Len(h) - 1)

\* the lag of the highest score, the smallest such lag on ties (an ascending
\* scan that replaces its choice only on a strict improvement)
SelectedLag(h, r, max_lag) ==
    CHOOSE L \in CandidateLags(h, max_lag) :
        \A M \in CandidateLags(h, max_lag) :
            \/ LagScore(h, r, M) < LagScore(h, r, L)
            \/ LagScore(h, r, M) = LagScore(h, r, L) /\ L <= M

\* two candidate lags of history h share the highest score for role r
TiedLags(h, r, max_lag) ==
    \E L, M \in CandidateLags(h, max_lag) :
        /\ L # M /\ LagScore(h, r, L) = LagScore(h, r, M)
        /\ \A K \in CandidateLags(h, max_lag) : LagScore(h, r, K) <= LagScore(h, r, L)

\* settings of max_lag under which two lags can be candidates
MaxLags == {2, 3}

\* C13: when two candidate lags tie on the highest correlation score, the lead
\* time a decision of src/app.py uses (for its pipeline and its horizon) is the
\* smaller of them, the lag the estimator selects.
C13_LeadTimeTieBreak ==
    (AppComputed /\ ~WeekOne) =>
        \A r \in RoleSet : \A m \in MaxLags :
            TiedLags(Sent, r, m) =>
                /\ LEAD_TIME = SelectedLag(Sent, r, m)
                /\ H_TARGET = REVIEW_TIME + SelectedLag(Sent, r, m)
                /\ decide_for_role(Sent, r).pipeline
                       = pipeline_with(Sent, r, SelectedLag(Sent, r, m)).v

\* the locals of worker r as a call of decide_for_role running alone holds them
SoloLocals(r) ==
    LET l == ReadLocals(WeeksOf(body).l, r)
    IN  IF pc[r] = "read" THEN l ELSE [l EXCEPT !.q = OrderFrom(l, BETA_BY_ROLE_0[r])]

\* C14: with one worker per role, interleaved in any way, every worker holds
\* the values a call running alone holds, and the collected response is the
\* response of the sequential role loop.
C14_WorkersAgree ==
    /\ \A r \in RoleSet :
          (pc[r] \in {"read", "done"} \/ ret # "none") =>
              [loc[r] EXCEPT !.after = {}] = SoloLocals(r)
    /\ ret # "none" => resp = Serve(body).resp

\* C14 witness: a computed response was collected from workers that finished in
\* the reverse of the sequential order, the factory first and the retailer last
C14_Witness ==
    /\ ret = "computed" /\ deployed = "app" /\ Len(Sent) >= 2
    /\ loc["factory"].after = {}
    /\ loc["retailer"].after = RoleSet \ {"retailer"}
    /\ resp.orders["retailer"] # resp.orders["factory"]

\* C15: after a request was served, whichever return of decision() answered it,
\* the weeks it carried are the records of the history store as they were sent:
\* no week record, role state or past order was changed.
C15_HistoryUnchanged ==
    (body.t = "map" /\ body.weeks.t = "list") => body.weeks.l = history

\* C15 witness: a request on two or more weeks, one of them without recorded
\* orders, was answered by the fault fallback
C15_Witness ==
    /\ ret = "fallback" /\ Len(history) >= 2
    /\ body.weeks.t = "list" /\ body.weeks.l = history
    /\ \E i \in 1..Len(history) : history[i].t = "map" /\ history[i].orders.t = "absent"

\* the level and error estimate the forecaster of the deployed variant holds
\* after the first i records of h, inside its loop
LoopState(h, i, r) ==
    IF deployed = "app"
    THEN LET st == smooth_loop(h, i, r, ALPHA) IN [fc |-> st.fc, err |-> st.mad]
    ELSE LET st == BG_smooth_loop(h, i, r, BG_ALPHA) IN [fc |-> st.fc, err |-> st.mae]

\* C16: in every week after the first the forecaster moves its level to
\* alpha*d + (1-alpha)*level_prev and its error estimate to
\* alpha*|d - level_prev| + (1-alpha)*error_estimate, the deviation being taken
\* from the previous level.
C16_UpdateAgainstLevel ==
    (WeeklyRequest /\ WellFormed(Sent)) =>
        \A r \in RoleSet : \A i \in 2..Len(Sent) :
            LET prev == LoopState(Sent, i - 1, r)
                d == ObservedDemand(Sent[i], r)
            IN  LoopState(Sent, i, r) = SmoothingUpdate(prev.fc, prev.err, d, AlphaDeployed)

\* the sum of role r's recorded orders in the records from..to of h
RECURSIVE OrdersSum(_, _, _, _)
OrdersSum(h, r, from, to) ==
    IF from > to THEN 0 ELSE OrdersEntry(h[from], r).v + OrdersSum(h, r, from + 1, to)

\* the orders of the most recent min(lead_time - 1, history_length - 1) weeks
\* before the last record of h
OrdersBeforeLast(h, r, lead_time) ==
    OrdersSum(h, r, Len(h) - Min(lead_time - 1, Len(h) - 1), Len(h) - 1)

\* C17: for a lead time above 1 the reconstructed pipeline is 0 on fewer than
\* two records, and otherwise the sum of the role's recorded orders over the
\* most recent min(lead_time - 1, history_length - 1) weeks, the last record
\* (the week being decided) not counted.
C17_PipelineExcludesLast ==
    (probe.role # "none" /\ probe.lead_time > 1 /\ WellFormed(history)) =>
        /\ ~probe.exc
        /\ probe.pipeline = IF Len(history) < 2 THEN 0
                            ELSE OrdersBeforeLast(history, probe.role, probe.lead_time)

\* C18: on a history of week records, whatever their past-order entries hold
\* (negative or non-numeric values included), the reconstructed pipeline is a
\* natural number.
C18_PipelineNatural ==
    (/\ probe.role # "none"
     /\ \A i \in 1..Len(history) : history[i].t = "map" /\ history[i].orders.t # "scalar") =>
        ~probe.exc /\ probe.pipeline \in Nat

\* the last request was a weekly request on a well-formed history for which the
\* deployed variant computed positions and targets (not the week-1 return)
PolicyComputed ==
    /\ WeeklyRequest /\ WellFormed(Sent) /\ ret = "computed"
    /\ ~(deployed = "app" /\ WeekOne)

\* the state of role r in the last record of the sent history
CurrentState(r) == Sent[Len(Sent)].roles.m[r]

\* the inventory position the deployed variant used for role r, and the
\* pipeline in it (the earlier variants reconstruct none)
PositionUsed(r) == IF deployed = "app" THEN Decide(Sent, r).IP ELSE Decide(Sent, r).ip
PipelineUsed(r) == IF deployed = "app" THEN Decide(Sent, r).pipeline ELSE 0

OtherQuantities == {0, 7}

\* the sent history with role r's arriving_shipments, or incoming_orders, of
\* the last record set to v
WithArriving(r, v) == [Sent EXCEPT ![Len(Sent)].roles.m[r].arriving_shipments = Num(v)]
WithIncoming(r, v) == [Sent EXCEPT ![Len(Sent)].roles.m[r].incoming_orders = Num(v)]

SafetyOf(k, err, H) == MulFx((k * err) \div HUNDRED, sqrt(H))

\* sqrt(H) is the square root of H to four decimals
SqrtExact(H) ==
    sqrt(H) * sqrt(H) <= H * SCALE * SCALE /\ H * SCALE * SCALE < (sqrt(H) + 1) * (sqrt(H) + 1)

\* C20: the target of every decision is forecast * H + safety with
\* safety = k_safety * error_estimate * sqrt(H) >= 0, hence at least
\* forecast * H; in src/app.py H is the review period plus the lead time the
\* pipeline of the same decision was reconstructed with, in the earlier
\* variants the fixed HORIZON.
C20_Target ==
    PolicyComputed =>
        \A r \in RoleSet :
            LET d == Decide(Sent, r)
            IN  IF deployed = "app"
                THEN LET H == REVIEW_TIME + LEAD_TIME
                     IN  /\ SqrtExact(H)
                         /\ d.target_S = d.fc * H + SafetyOf(K_SAFETY, d.mad, H)
                         /\ SafetyOf(K_SAFETY, d.mad, H) >= 0 /\ d.target_S >= d.fc * H
                         /\ d.pipeline = pipeline_with(Sent, r, H - REVIEW_TIME).v
                ELSE LET H == BG_HORIZON
                     IN  /\ SqrtExact(H)
                         /\ d.target = d.fc * H + SafetyOf(BG_K_SAFETY, d.mae, H)
                         /\ SafetyOf(BG_K_SAFETY, d.mae, H) >= 0 /\ d.target >= d.fc * H

\* C20 witness: src/app.py computed a target above forecast * H for a role with
\* a pipeline, on a history of two weeks or more
C20_Witness ==
    /\ PolicyComputed /\ deployed = "app" /\ Len(Sent) >= 2
    /\ \E r \in RoleSet :
          /\ Decide(Sent, r).pipeline > 0
          /\ Decide(Sent, r).target_S > Decide(Sent, r).fc * H_TARGET

\* round-half-up as section 4.5 words it: x <= 0 gives 0, otherwise floor(x + 0.5)
RoundAsWorded(num, den) == IF num <= 0 THEN 0 ELSE (2 * num + den) \div (2 * den)

\* the damped policy in the order of section 4.5, in units of 1 / (HUNDRED * SCALE):
\* raw = beta*gap + (1-beta)*last_order, clamped to [last_order - ramp,
\* last_order + ramp], then rounded half-up, then clamped to >= 0
StepsAsWorded(gap, last, ramp, beta) ==
    LET unit == HUNDRED * SCALE
        raw == beta * gap + (HUNDRED - beta) * last * SCALE
        clamped == Min((last + ramp) * unit, Max((last - ramp) * unit, raw))
    IN  Max(0, RoundAsWorded(clamped, unit))

\* C21: every order src/app.py computes equals the result of the steps in the
\* order of section 4.5 (partial adjustment, ramp clamp of the unrounded value,
\* round-half-up, clamp to >= 0), although the code rounds before it clamps.
C21_StepOrder ==
    (AppComputed /\ ~WeekOne) =>
        \A r \in RoleSet :
            LET d == decide_for_role(Sent, r)
            IN  resp.orders[r] = StepsAsWorded(d.target_S - d.IP * SCALE, d.q_last,
                                               RampOf(d.fc), BETA_BY_ROLE[r])

\* C21 witness: in one decision of src/app.py a role's unrounded order was
\* negative with nothing ordered before (order 0), and another role's lay
\* strictly inside its ramp interval, off an integer
C21_Witness ==
    /\ AppComputed /\ ~WeekOne
    /\ \E r \in RoleSet :
          LET d == decide_for_role(Sent, r)
          IN  d.q_base < 0 /\ d.q_last = 0 /\ resp.orders[r] = 0
    /\ \E r \in RoleSet :
          LET d == decide_for_role(Sent, r)
          IN  /\ d.q_base > (d.q_last - d.ramp) * HUNDRED * SCALE
              /\ d.q_base < (d.q_last + d.ramp) * HUNDRED * SCALE
              /\ d.q_base % (HUNDRED * SCALE) # 0

\* the last order the deployed variant used for role r: q_last of src/app.py,
\* last_order(weeks, role) of the earlier variants
LastOrderUsed(r) == IF deployed = "app" THEN Decide(Sent, r).q_last ELSE Decide(Sent, r).last

\* C22: whenever the last week record holds no order for a role (whatever its
\* week number), the last order the policy uses for that role, in the partial
\* adjustment and in the ramp interval, is the baseline 10, not 0.
C22_FirstOrderBaseline ==
    PolicyComputed =>
        \A r \in RoleSet :
            ~HasRecordedOrder(r) => LastOrderUsed(r) = INITIAL_DEMAND_ESTIMATE

\* the last request is a mapping whose handshake field is the JSON literal true
HandshakeRequest == body.t = "map" /\ body.handshake = JTrue

\* the descriptor of the deployed variant
Descriptor == IF deployed = "app" THEN HANDSHAKE ELSE BG_HANDSHAKE

\* C23: a request with handshake true gets the fixed descriptor (ok true, the
\* variant's metadata, blackbox supported, glassbox not, "BeerBot ready") and
\* no orders mapping, with or without weeks; any other request gets no descriptor.
C23_Handshake ==
    /\ HandshakeRequest =>
          /\ resp.kind = "handshake" /\ resp.orders = NoOrders
          /\ resp.desc = Descriptor
          /\ resp.desc.ok /\ resp.desc.message = "BeerBot ready"
          /\ resp.desc.supports = [blackbox |-> TRUE, glassbox |-> FALSE]
          /\ resp.desc.student_email # "" /\ resp.desc.algorithm_name # ""
          /\ resp.desc.version # ""
    /\ (body # NoBody /\ ~HandshakeRequest) =>
          resp.kind # "handshake" /\ resp.desc = NoDesc

\* C23 witness: a handshake that also carried a non-empty list of weeks was
\* answered with the descriptor
C23_Witness ==
    /\ HandshakeRequest /\ body.weeks.t = "list" /\ Len(body.weeks.l) > 0
    /\ resp.kind = "handshake" /\ resp.desc = Descriptor

\* the last request reached the role loop of src/app.py: a mapping without
\* handshake true whose weeks is a non-empty list, whatever the records hold
AppNonEmpty == deployed = "app" /\ WeeklyRequest

\* C24: every response of src/app.py for a non-empty history is either the
\* computed order of all four roles or the baseline 10 for all four roles.
C24_AllOrNothing ==
    AppNonEmpty =>
        /\ resp.kind = "orders"
        /\ \/ resp.orders = Baseline
           \/ \A r \in RoleSet :
                  /\ ~decide_for_role(Sent, r).exc
                  /\ resp.orders[r] = decide_for_role(Sent, r).q

\* C24 witness: the computation of one role raised after another role's order
\* had been computed as something other than 10, and the response is the
\* baseline for all four roles
C24_Witness ==
    /\ AppNonEmpty /\ ret = "fallback" /\ resp.orders = Baseline
    /\ \E r \in ran :
          ~decide_for_role(Sent, r).exc /\ decide_for_role(Sent, r).q # INITIAL_DEMAND_ESTIMATE
    /\ \E r \in RoleSet : decide_for_role(Sent, r).exc

\* a numeric field that is a JSON integer of either sign, or missing
IntegerField(x) == x.t = "int" \/ x.t = "absent"

\* every record is a mapping with all four roles and every numeric field of
\* every role, and every recorded order, is an integer or missing
IntegerFields(h) ==
    /\ Shaped(h)
    /\ \A i \in 1..Len(h) : \A r \in RoleSet :
          /\ IntegerField(h[i].roles.m[r].inventory) /\ IntegerField(h[i].roles.m[r].backlog)
          /\ IntegerField(h[i].roles.m[r].incoming_orders)
          /\ IntegerField(h[i].roles.m[r].arriving_shipments)
          /\ IntegerField(h[i].orders.m[r])

\* the last request with mode m
WithMode(m) == [body EXCEPT !.mode = m]

\* C25: for every non-empty history with integer fields, decide_for_role of
\* src/BeerGame.py and of src/beerbot.py return the same order for every role
\* without raising, and their decision handlers return the same orders mapping
\* under mode blackbox and under mode glassbox.
C25_VariantsEquivalent ==
    (WeeklyRequest /\ IntegerFields(Sent)) =>
        /\ \A r \in RoleSet :
              /\ ~BG_decide_for_role(Sent, r).exc /\ ~BB_decide_for_role(Sent, r).exc
              /\ BG_decide_for_role(Sent, r).q = BB_decide_for_role(Sent, r).q
        /\ \A m \in {"blackbox", "glassbox"} :
              /\ BG_decision(WithMode(m)).resp.kind = "orders"
              /\ BG_decision(WithMode(m)).resp = BB_decision(WithMode(m)).resp
              /\ (deployed # "app" /\ body.mode = m) => resp = BG_decision(WithMode(m)).resp

\* C25 witness: src/beerbot.py answered a glassbox request on a two-week
\* history with a negative field in its last record, a projected backlog for
\* every role and a positive order for one
C25_Witness ==
    /\ deployed = "beerbot" /\ WeeklyRequest /\ IntegerFields(Sent) /\ body.mode = "glassbox"
    /\ Len(Sent) = 2 /\ ret = "computed"
    /\ \A r \in RoleSet : CurrentState(r).inventory.v < 0 /\ BB_decide_for_role(Sent, r).ip < 0
    /\ \E r \in RoleSet : resp.orders[r] > 0

\* C26: for all integer inventory, backlog, incoming_orders and
\* arriving_shipments, projected_position of src/BeerGame.py and of
\* src/beerbot.py computes a projected on-hand and a projected backlog that are
\* both >= 0 and never both positive, and returns the position
\* inventory + arriving_shipments - backlog - incoming_orders.
C26_ProjectedPosition ==
    (probe.role # "none" /\ IntegerField(probe.state.inventory) /\ IntegerField(probe.state.backlog)
       /\ IntegerField(probe.state.incoming_orders) /\ IntegerField(probe.state.arriving_shipments)) =>
        /\ ~probe.pos.exc
        /\ probe.pos.on_hand >= 0 /\ probe.pos.backlog >= 0
        /\ ~(probe.pos.on_hand > 0 /\ probe.pos.backlog > 0)
        /\ probe.pos.ip = probe.state.inventory.v + probe.state.arriving_shipments.v
                            - probe.state.backlog.v - probe.state.incoming_orders.v

\* C26 witness: projected_position of src/BeerGame.py was called on a state
\* with a negative inventory and a negative backlog and projected a backlog
C26_Witness ==
    /\ probe.role # "none" /\ deployed = "BeerGame"
    /\ probe.state.inventory.v < 0 /\ probe.state.backlog.v < 0
    /\ probe.pos.backlog > 0 /\ probe.pos.on_hand = 0 /\ probe.pos.ip < 0

====
